---------------------------- MODULE Spec2Model ----------------------------
(***************************************************************************)
(* The toki compiler pipeline of src/toki.c (lines 1-1084, the most        *)
(* complete revision): scan -> evaluate -> parse -> compile_sentence* ->   *)
(* write.  Texts are sequences of one-character strings; the byte that     *)
(* ends a C string is the pseudo character NUL.                            *)
(***************************************************************************)
EXTENDS Integers, Sequences, FiniteSets, TLC

VARIABLES
    pc,       \* position in main(): "scan", "evaluate", "parse", "compile", "write", "end"
    halt,     \* "running", "exit0", "exit1" (exit(1) after a message), "segv"
    err,      \* the message printed to stderr before exit(1), "" if none
    input,    \* scan's argument: the source text without its terminating NUL
    prev,     \* the byte stored just before input, read by scan as *(p - 1)
    p, q,     \* scan's cursors, as 1-based positions in input
    mode,     \* scan's Match mode
    lexemes,  \* scan's lexeme list
    lex,      \* evaluate's loop index (0-based, as in the code)
    tokens,   \* evaluate's token list
    i,        \* parse's loop index (0-based)
    pmode,    \* parse's Mode
    s,        \* parse's sentence under construction
    buffer,   \* parse's pending token buffer
    sl,       \* parse's sentence list
    ci,       \* compile's loop index (0-based)
    sd,       \* SectionData: [lines, literals]
    st,       \* SectionText: [lines]
    asm       \* the file write() produced: [written, text, data]

vars == <<pc, halt, err, input, prev, p, q, mode, lexemes, lex, tokens,
          i, pmode, s, buffer, sl, ci, sd, st, asm>>

scanVars == <<p, q, mode, lexemes>>
evalVars == <<lex, tokens>>
parseVars == <<i, pmode, s, buffer, sl>>
compileVars == <<ci, sd, st, asm>>

---------------------------------------------------------------------------
(* Bounds of the model *)

\* longest source text drawn character by character
MaxLen == 4
\* most words in a source text drawn word by word
MaxWords == 2
\* longest token list handed to parse directly
MaxTokens == 4
\* most sentences handed to compile directly
MaxSentences == 2
\* characters of a source text given to scan alone
MaxScanLen == 3
\* most tokens in a row between two triggers handed to parse
MaxRun == 12

---------------------------------------------------------------------------
(* Characters and <ctype.h> in the C locale *)

NUL == "NUL"
\* a representative of every byte value other than NUL
NONNUL == "?"

Letters == {"a", "b", "e", "f", "i", "k", "l", "m", "n", "o", "s", "t", "x"}
Digits == {"5"}
Blanks == {" ", "\n"}

isspace(c) == c \in Blanks
iscntrl(c) == c \in {NUL, "\n"}
isalpha(c) == c \in Letters
isdigit(c) == c \in Digits
isalnum(c) == isalpha(c) \/ isdigit(c)

---------------------------------------------------------------------------
(* Vocabularies *)

KEYWORD_E == 0
KEYWORD_O == 1
KEYWORD_SITELEN == 2
KEYWORD_TOKI == 3
KEYWORD_LI == 4
KEYWORD_KAMA == 5
KEYWORD_SAMA == 6
KEYWORD_SIN == 7

KEYWORDS == <<
    <<"e">>,
    <<"o">>,
    <<"s", "i", "t", "e", "l", "e", "n">>,
    <<"t", "o", "k", "i">>,
    <<"l", "i">>,
    <<"k", "a", "m", "a">>,
    <<"s", "a", "m", "a">>,
    <<"s", "i", "n">> >>

KEYWORD_COUNT == Len(KEYWORDS)

SEPARATOR_PERIOD == 0

SEPARATORS == << <<".">> >>

SEPARATOR_COUNT == Len(SEPARATORS)

LITERAL_STRING == 0

\* sizeof(Keyword), sizeof(Separator), sizeof(Literal): enums are ints
SizeofEnum == 4

---------------------------------------------------------------------------
(* Tokens and phrases *)

Token(type, id, text, size) ==
    [type |-> type, id |-> id, text |-> text, size |-> size]

TOKEN_DEFAULT == Token("TOKEN_NULL", 0, <<>>, 0)

TOKENLIST_DEFAULT == <<>>

\* .list = NULL, .size = 0: no storage behind the list
PREPPHRASELIST_DEFAULT == [list |-> "NULL", size |-> 0]

NOUNPHRASE_DEFAULT ==
    [noun |-> TOKEN_DEFAULT, adjp |-> TOKENLIST_DEFAULT, ppl |-> PREPPHRASELIST_DEFAULT]

VERBPHRASE_DEFAULT ==
    [verb |-> TOKEN_DEFAULT, advp |-> TOKENLIST_DEFAULT, obj |-> NOUNPHRASE_DEFAULT]

SENTENCE_DEFAULT == [subj |-> NOUNPHRASE_DEFAULT, pred |-> VERBPHRASE_DEFAULT]

is_keyword(t, kw) == t.type = "TOKEN_KEYWORD" /\ t.id = kw

is_seperator(t, sp) == t.type = "TOKEN_SEPARATOR" /\ t.id = sp

is_literal(t, lt) == t.type = "TOKEN_LITERAL" /\ t.id = lt

---------------------------------------------------------------------------
(* scan: one action per iteration of its while loop *)

\* *k for a pointer k into the buffer holding input: position 0 is the byte
\* before the buffer, position Len(input) + 1 the terminating NUL
CharAt(k) ==
    IF k = 0 THEN prev
    ELSE IF k <= Len(input) THEN input[k]
    ELSE NUL

\* the while condition *(p - 1) != '\0'
ScanLoopCond == CharAt(p - 1) # NUL

\* the condition that ends a TEXT lexeme
TextEnds(c) == isspace(c) \/ iscntrl(c) \/ c = "."

\* strncpy(text, q, str_size) of the TEXT branch: the span [q, p)
TextLexeme == SubSeq(input, q, p - 1)

\* strncpy(text, q, str_size) of the STRING branch: the span [q, p]
StringLexeme == SubSeq(input, q, p)

\* the lexemes the TEXT branch adds when c ends the word
TextEmit(c) ==
    IF c = "." THEN <<TextLexeme, <<".">> >> ELSE <<TextLexeme>>

ScanFatal ==
    \* fprintf(stderr, "Unknown lexeme %s ...", *p, ...) hands a char to %s:
    \* the call either survives and exit(1) follows, or faults
    /\ halt' \in {"exit1", "segv"}
    /\ err' = "Unknown lexeme"
    /\ UNCHANGED <<pc, p, q, mode, lexemes>>

\* ScanUnknown that steps over a character it does not know
ScanUnknownSkips(c) ==
    IF isalpha(c)
    THEN /\ mode' = "TEXT"
         /\ p' = p + 1
         /\ UNCHANGED <<pc, halt, err, q, lexemes>>
    ELSE IF c = "\""
    THEN /\ mode' = "STRING"
         /\ p' = p + 1
         /\ UNCHANGED <<pc, halt, err, q, lexemes>>
    ELSE IF c = "."
    THEN /\ lexemes' = Append(lexemes, <<".">>)
         /\ q' = p + 1
         /\ p' = p + 1
         /\ UNCHANGED <<pc, halt, err, mode>>
    ELSE /\ q' = q + 1
         /\ p' = p + 1
         /\ UNCHANGED <<pc, halt, err, mode, lexemes>>

ScanUnknown(c) ==
    IF isspace(c) \/ iscntrl(c)
    THEN /\ q' = q + 1
         /\ p' = p + 1
         /\ UNCHANGED <<pc, halt, err, mode, lexemes>>
    ELSE IF isalpha(c)
    THEN /\ mode' = "TEXT"
         /\ p' = p + 1
         /\ UNCHANGED <<pc, halt, err, q, lexemes>>
    ELSE IF c = "\""
    THEN /\ mode' = "STRING"
         /\ p' = p + 1
         /\ UNCHANGED <<pc, halt, err, q, lexemes>>
    ELSE IF c = "."
    THEN /\ lexemes' = Append(lexemes, <<".">>)
         /\ q' = p + 1
         /\ p' = p + 1
         /\ UNCHANGED <<pc, halt, err, mode>>
    ELSE ScanFatal

ScanText(c) ==
    IF TextEnds(c)
    THEN /\ lexemes' = lexemes \o TextEmit(c)
         /\ mode' = "UNKNOWN"
         /\ q' = p + 1
         /\ p' = p + 1
         /\ UNCHANGED <<pc, halt, err>>
    ELSE \* alphanumeric or not, the character stays in the word
         /\ p' = p + 1
         /\ UNCHANGED <<pc, halt, err, q, mode, lexemes>>

\* ScanString whose backslash moves the cursor back
ScanStringStuck(c) ==
    IF c = "\\"
    THEN /\ p' = p - 1
         /\ UNCHANGED <<pc, halt, err, q, mode, lexemes>>
    ELSE IF c = "\""
    THEN /\ lexemes' = Append(lexemes, StringLexeme)
         /\ mode' = "UNKNOWN"
         /\ q' = p + 1
         /\ p' = p + 1
         /\ UNCHANGED <<pc, halt, err>>
    ELSE /\ p' = p + 1
         /\ UNCHANGED <<pc, halt, err, q, mode, lexemes>>

ScanString(c) ==
    IF c = "\\"
    THEN /\ p' = p + 2
         /\ UNCHANGED <<pc, halt, err, q, mode, lexemes>>
    ELSE IF c = "\""
    THEN /\ lexemes' = Append(lexemes, StringLexeme)
         /\ mode' = "UNKNOWN"
         /\ q' = p + 1
         /\ p' = p + 1
         /\ UNCHANGED <<pc, halt, err>>
    ELSE /\ p' = p + 1
         /\ UNCHANGED <<pc, halt, err, q, mode, lexemes>>

ScanStep ==
    /\ pc = "scan" /\ halt = "running"
    /\ ScanLoopCond
    /\ CASE mode = "UNKNOWN" -> ScanUnknown(CharAt(p))
         [] mode = "TEXT" -> ScanText(CharAt(p))
         [] mode = "STRING" -> ScanString(CharAt(p))
    /\ UNCHANGED <<input, prev, evalVars, parseVars, compileVars>>

\* ScanReturn that emits the string left open
ScanReturnEmits ==
    /\ pc = "scan" /\ halt = "running"
    /\ ~ScanLoopCond
    /\ pc' = "evaluate"
    /\ lexemes' = IF mode = "STRING"
                  THEN Append(lexemes, SubSeq(input, q, Len(input)))
                  ELSE lexemes
    /\ UNCHANGED <<halt, err, input, prev, p, q, mode, evalVars, parseVars, compileVars>>

\* return (LexemeList) {...}; main() goes on to evaluate
ScanReturn ==
    /\ pc = "scan" /\ halt = "running"
    /\ ~ScanLoopCond
    /\ pc' = "evaluate"
    /\ UNCHANGED <<halt, err, input, prev, scanVars, evalVars, parseVars, compileVars>>

---------------------------------------------------------------------------
(* evaluate: one action per iteration of its for loop *)

\* the keyword loop: the first kw with !strcmp(lexemes[lex], KEYWORDS[kw])
KeywordMatches(L) == {kw \in 0..(KEYWORD_COUNT - 1) : KEYWORDS[kw + 1] = L}

FirstKeyword(L) == CHOOSE kw \in KeywordMatches(L) : \A k \in KeywordMatches(L) : kw <= k

\* the identifier test: first character alphabetic, the rest alphanumeric or '_'
IsIdentifier(L) ==
    /\ L # <<>>
    /\ isalpha(L[1])
    /\ \A k \in 1..Len(L) : isalnum(L[k]) \/ L[k] = "_"

\* the string test lexemes[lex][0] == '"'
IsStringLexeme(L) == L # <<>> /\ L[1] = "\""

\* while (*p != '"') ++p;  from the character after the opening quote
ClosingQuote(L) ==
    CHOOSE k \in 2..Len(L) : L[k] = "\"" /\ \A j \in 2..(k - 1) : L[j] # "\""

\* the text between q (after the opening quote) and p (the quote found)
StringText(L) == SubSeq(L, 2, ClosingQuote(L) - 1)

SeparatorMatches(L) == {sp \in 0..(SEPARATOR_COUNT - 1) : SEPARATORS[sp + 1] = L}

\* The byte indices of curr.value that one iteration writes for lexeme L:
\* the enum store of a keyword or separator; strncpy of curr.size bytes and
\* the terminator at [curr.size] of an identifier; the type word, strncpy of
\* str_size bytes behind it and the terminator at [curr.size] of a string
PayloadWrites(L) ==
    IF KeywordMatches(L) # {}
    THEN 0..(SizeofEnum - 1)
    ELSE IF IsIdentifier(L)
    THEN 0..(Len(L) - 1) \cup {Len(L)}
    ELSE IF IsStringLexeme(L)
    THEN 0..(SizeofEnum - 1)
         \cup SizeofEnum..(SizeofEnum + Len(StringText(L)) - 1)
         \cup {SizeofEnum + Len(StringText(L))}
    ELSE IF SeparatorMatches(L) # {}
    THEN 0..(SizeofEnum - 1)
    ELSE {}

\* EvalLexeme with the identifier test tried before the keyword loop
EvalLexemeIdentifierFirst(L) ==
    IF IsIdentifier(L)
    THEN <<Token("TOKEN_IDENTIFIER", 0, L, Len(L))>>
    ELSE IF KeywordMatches(L) # {}
    THEN <<Token("TOKEN_KEYWORD", FirstKeyword(L), <<>>, SizeofEnum)>>
    ELSE IF IsStringLexeme(L)
    THEN <<Token("TOKEN_LITERAL", LITERAL_STRING, StringText(L),
                 SizeofEnum + Len(StringText(L)))>>
    ELSE IF SeparatorMatches(L) # {}
    THEN <<Token("TOKEN_SEPARATOR", CHOOSE sp \in SeparatorMatches(L) : TRUE,
                 <<>>, SizeofEnum)>>
    ELSE <<>>

\* The tokens one iteration appends for lexeme L: one token, or none when no
\* branch matches (the loop body falls off its end).  The branches are tried
\* in the order of the code: keyword, identifier, string literal, separator.
EvalLexeme(L) ==
    IF KeywordMatches(L) # {}
    THEN <<Token("TOKEN_KEYWORD", FirstKeyword(L), <<>>, SizeofEnum)>>
    ELSE IF IsIdentifier(L)
    THEN <<Token("TOKEN_IDENTIFIER", 0, L, Len(L))>>
    ELSE IF IsStringLexeme(L)
    THEN <<Token("TOKEN_LITERAL", LITERAL_STRING, StringText(L),
                 SizeofEnum + Len(StringText(L)))>>
    ELSE IF SeparatorMatches(L) # {}
    THEN <<Token("TOKEN_SEPARATOR", CHOOSE sp \in SeparatorMatches(L) : TRUE,
                 <<>>, SizeofEnum)>>
    ELSE <<>>

EvalStep ==
    /\ pc = "evaluate" /\ halt = "running"
    /\ lex < Len(lexemes)
    /\ tokens' = tokens \o EvalLexeme(lexemes[lex + 1])
    /\ lex' = lex + 1
    /\ UNCHANGED <<pc, halt, err, input, prev, scanVars, parseVars, compileVars>>

\* return (TokenList){...}; main() goes on to parse
EvalReturn ==
    /\ pc = "evaluate" /\ halt = "running"
    /\ lex >= Len(lexemes)
    /\ pc' = "parse"
    /\ UNCHANGED <<halt, err, input, prev, scanVars, evalVars, parseVars, compileVars>>

---------------------------------------------------------------------------
(* parse: one action per iteration of its for loop.  The body of the loop   *)
(* is the operator ParseToken on the record of parse's local variables.     *)

\* parse's locals at loop entry
ParseStart ==
    [pmode |-> "PHRASE_EN", s |-> SENTENCE_DEFAULT, buffer |-> <<>>, sl |-> <<>>,
     halt |-> "running", err |-> ""]

\* *head = t, for the head the mode selects ("Set head, tail, ppl")
SetHead(m, sent, t) ==
    CASE m = "PHRASE_EN" -> [sent EXCEPT !.subj.noun = t]
      [] m = "PHRASE_O" -> [sent EXCEPT !.pred.verb = t]
      [] m = "PHRASE_E" -> [sent EXCEPT !.pred.obj.noun = t]

\* *tail = l, for the tail the mode selects
SetTail(m, sent, l) ==
    CASE m = "PHRASE_EN" -> [sent EXCEPT !.subj.adjp = l]
      [] m = "PHRASE_O" -> [sent EXCEPT !.pred.advp = l]
      [] m = "PHRASE_E" -> [sent EXCEPT !.pred.obj.adjp = l]

\* "Push buffer into sentence" of the o/li, e and separator branches
PushBuffer(m, sent, buf) ==
    LET s1 == IF Len(buf) >= 1 THEN SetHead(m, sent, buf[1]) ELSE sent
    IN  IF Len(buf) >= 2 THEN SetTail(m, s1, Tail(buf)) ELSE s1

\* "Push buffer into sentence" of the sin branch: with two or more tokens it
\* writes s.subj, whatever the mode
PushBufferSin(m, sent, buf) ==
    LET s1 == IF Len(buf) >= 1 THEN SetHead(m, sent, buf[1]) ELSE sent
    IN  IF Len(buf) >= 2
        THEN [s1 EXCEPT !.subj.noun = buf[1], !.subj.adjp = Tail(buf)]
        ELSE s1

ParseExit(ps, msg) == [ps EXCEPT !.halt = "exit1", !.err = msg]

\* a store or load through a null pointer
ParseFault(ps) == [ps EXCEPT !.halt = "segv"]

\* ParseVerbMarker without the check of Verb mode
ParseVerbMarkerConjoins(ps) ==
    IF ps.pmode = "PHRASE_E"
    THEN ParseExit(ps, "Unimplemented: cannot use multiple predicates")
    ELSE [ps EXCEPT !.s = PushBuffer(ps.pmode, ps.s, ps.buffer),
                    !.pmode = "PHRASE_O",
                    !.buffer = <<>>]

\* the o/li branch
ParseVerbMarker(ps) ==
    IF ps.pmode = "PHRASE_E"
    THEN ParseExit(ps, "Unimplemented: cannot use multiple predicates")
    ELSE IF ps.pmode = "PHRASE_O"
    THEN ParseExit(ps, "Unimplemented: cannot conjoin predicates")
    ELSE [ps EXCEPT !.s = PushBuffer(ps.pmode, ps.s, ps.buffer),
                    !.pmode = "PHRASE_O",
                    !.buffer = <<>>]

\* ParseSin without the check of Verb mode: there ppl is NULL
ParseSinAnyMode(ps) ==
    IF Len(ps.buffer) = 0
    THEN ParseExit(ps, "Monadic 'sin' is not allowed.")
    ELSE ParseFault([ps EXCEPT !.s = PushBufferSin(ps.pmode, ps.s, ps.buffer)])

\* the sin branch: after the checks and the push, ppl->list[ppl->size].prep = *p
\* stores through ppl->list, which is NULL in every NounPhrase (no code
\* allocates it)
ParseSin(ps) ==
    IF ps.pmode = "PHRASE_O"
    THEN ParseExit(ps, "Prepositions not allowed after verb phrases.")
    ELSE IF Len(ps.buffer) = 0
    THEN ParseExit(ps, "Monadic 'sin' is not allowed.")
    ELSE ParseFault([ps EXCEPT !.s = PushBufferSin(ps.pmode, ps.s, ps.buffer)])

\* ParseObjectMarker without the check of Subject mode
ParseObjectMarkerUnchecked(ps) ==
    [ps EXCEPT !.s = PushBuffer(ps.pmode, ps.s, ps.buffer),
               !.pmode = "PHRASE_E",
               !.buffer = <<>>]

\* the e branch
ParseObjectMarker(ps) ==
    IF ps.pmode = "PHRASE_EN"
    THEN ParseExit(ps, "Error, invalid word order SO")
    ELSE [ps EXCEPT !.s = PushBuffer(ps.pmode, ps.s, ps.buffer),
                    !.pmode = "PHRASE_E",
                    !.buffer = <<>>]

\* ParseSeparator without the switch back to PHRASE_EN
ParseSeparatorKeepsMode(ps) ==
    [ps EXCEPT !.sl = Append(ps.sl, PushBuffer(ps.pmode, ps.s, ps.buffer)),
               !.s = SENTENCE_DEFAULT,
               !.buffer = <<>>]

\* the separator branch
ParseSeparator(ps) ==
    [ps EXCEPT !.sl = Append(ps.sl, PushBuffer(ps.pmode, ps.s, ps.buffer)),
               !.s = SENTENCE_DEFAULT,
               !.pmode = "PHRASE_EN",
               !.buffer = <<>>]

\* ParseOther that commits the token to the head at once
ParseOtherCommits(ps, t) ==
    [ps EXCEPT !.buffer = Append(ps.buffer, t),
               !.s = SetHead(ps.pmode, ps.s, t)]

\* "Identifiers/Literals, add to the buffer"
ParseOther(ps, t) == [ps EXCEPT !.buffer = Append(ps.buffer, t)]

\* one iteration of the loop on token t
ParseToken(ps, t) ==
    IF ps.pmode = "PHRASE_PREP"
    THEN \* head = &(ppl->list[ppl->size].np.noun) with ppl NULL or ppl->list NULL
         ParseFault(ps)
    ELSE IF is_keyword(t, KEYWORD_O) \/ is_keyword(t, KEYWORD_LI)
    THEN ParseVerbMarker(ps)
    ELSE IF is_keyword(t, KEYWORD_SIN)
    THEN ParseSin(ps)
    ELSE IF is_keyword(t, KEYWORD_E)
    THEN ParseObjectMarker(ps)
    ELSE IF is_seperator(t, SEPARATOR_PERIOD)
    THEN ParseSeparator(ps)
    ELSE ParseOther(ps, t)

ParseLocals ==
    [pmode |-> pmode, s |-> s, buffer |-> buffer, sl |-> sl, halt |-> halt, err |-> err]

\* buffer.list = malloc(10 * sizeof(Token))
BufferCapacity == 10

\* tokens were stored past the end of the buffer's allocation
Overrun(ps) == Len(ps.buffer) > BufferCapacity

\* the buffer is the one allocated before the loop, which lies in front of sl;
\* every later one is allocated at the top of the heap
InitialBuffer(ps) == ps.pmode = "PHRASE_EN" /\ ps.sl = <<>>

\* a Token read from storage that something else was written to
TOKEN_INDETERMINATE == Token("TOKEN_INDETERMINATE", 0, <<>>, 0)

\* what stores past an allocation leave behind
Overwritten == {"intact", "clobbered"}

\* a modifier list whose elements of buffer index 10 and more lie in the
\* storage of sl, after sl[0] = s has been stored there
Clobber(l, g) ==
    [k \in 1..Len(l) |->
        IF k >= BufferCapacity /\ g = "clobbered" THEN TOKEN_INDETERMINATE ELSE l[k]]

\* the branches that end with buffer.list = malloc(10 * sizeof(Token))
Allocates(ps, t) ==
    /\ ps.pmode # "PHRASE_PREP"
    /\ \/ is_keyword(t, KEYWORD_O) \/ is_keyword(t, KEYWORD_LI)
       \/ is_keyword(t, KEYWORD_E)
       \/ is_seperator(t, SEPARATOR_PERIOD)

\* One iteration of the loop, with what the stores of earlier iterations past
\* the end of a buffer do to it.  The initial buffer is followed by sl, and the
\* subject modifiers point into that buffer: the separator branch stores the
\* first sentence (sl[size] = s) over the modifiers of index 10 and more.  A
\* later buffer is followed by the top of the heap, and the malloc of the
\* branch ends the process ("malloc(): corrupted top size").
ParseOutcome(ps, t, g) ==
    LET ns == ParseToken(ps, t)
    IN  IF ns.halt # "running" \/ ~Allocates(ps, t)
        THEN ns
        ELSE IF Overrun(ps) /\ ~InitialBuffer(ps)
        THEN [ps EXCEPT !.halt = "abort"]
        ELSE IF is_seperator(t, SEPARATOR_PERIOD) /\ ps.sl = <<>>
        THEN [ns EXCEPT !.sl[1].subj.adjp = Clobber(@, g)]
        ELSE ns

ParseStep ==
    /\ pc = "parse" /\ halt = "running"
    /\ i < Len(tokens)
    /\ \E g \in Overwritten :
         LET ps == ParseOutcome(ParseLocals, tokens[i + 1], g)
         IN  /\ pmode' = ps.pmode
             /\ s' = ps.s
             /\ buffer' = ps.buffer
             /\ sl' = ps.sl
             /\ halt' = ps.halt
             /\ err' = ps.err
             /\ i' = IF ps.halt = "running" THEN i + 1 ELSE i
    /\ UNCHANGED <<pc, input, prev, scanVars, evalVars, compileVars>>

\* ParseReturn that commits the sentence in progress
ParseReturnCommits ==
    /\ pc = "parse" /\ halt = "running"
    /\ i >= Len(tokens)
    /\ pc' = "compile"
    /\ sl' = IF buffer # <<>> \/ pmode # "PHRASE_EN"
             THEN Append(sl, PushBuffer(pmode, s, buffer))
             ELSE sl
    /\ UNCHANGED <<halt, err, input, prev, scanVars, evalVars, i, pmode, s, buffer,
                   compileVars>>

\* return (SentenceList) {...}; main() goes on to compile, whose first malloc
\* ends the process if the last buffer was overrun
ParseReturn ==
    /\ pc = "parse" /\ halt = "running"
    /\ i >= Len(tokens)
    /\ pc' = "compile"
    /\ halt' = IF Overrun(ParseLocals) /\ ~InitialBuffer(ParseLocals) THEN "abort" ELSE halt
    /\ UNCHANGED <<err, input, prev, scanVars, evalVars, parseVars, compileVars>>

\* parse as a function of its token list: the locals after the whole loop,
\* or at the iteration that ended the process
RECURSIVE ParseFrom(_, _)
ParseFrom(ps, toks) ==
    IF toks = <<>> \/ ps.halt # "running"
    THEN ps
    ELSE ParseFrom(ParseToken(ps, Head(toks)), Tail(toks))

ParseAll(toks) == ParseFrom(ParseStart, toks)

---------------------------------------------------------------------------
(* compile_sentence, compile and write *)

\* A line built by sprintf: the format string and the arguments it prints
Line(fmt, num, str1, str2) == [fmt |-> fmt, num |-> num, str1 |-> str1, str2 |-> str2]

\* What malloc(81 * sizeof(char)) holds when nothing is written to it: any
\* bytes; an empty string or some stray text stand for them
Indeterminate == {Line("", 0, <<>>, <<>>), Line("%s", 0, <<"?">>, <<>>)}

\* compile()'s sections before the first sentence
CompileStart ==
    [sd |-> [lines |-> <<>>, literals |-> 0], st |-> [lines |-> <<>>],
     halt |-> "running", err |-> ""]

CompileExit(cs, msg) == [cs EXCEPT !.halt = "exit1", !.err = msg]

\* the three text lines of a print of `first`
PrintLines(first) ==
    <<first, Line("call    _printf", 0, <<>>, <<>>), Line("add     esp, 4", 0, <<>>, <<>>)>>

\* PrintIdentifier that also counts a literal
PrintIdentifierCounts(cs, sent) ==
    [cs EXCEPT !.st.lines =
                   @ \o PrintLines(Line("push    VARIABLE_%s", 0, sent.pred.obj.noun.text, <<>>)),
               !.sd.literals = @ + 1]

\* sitelen with an identifier object
PrintIdentifier(cs, sent) ==
    [cs EXCEPT !.st.lines =
        @ \o PrintLines(Line("push    VARIABLE_%s", 0, sent.pred.obj.noun.text, <<>>))]

\* PrintString that does not count the literal
PrintStringSameLabel(cs, sent) ==
    [cs EXCEPT
        !.sd.lines = Append(@, Line("LITERAL_%d db \"%s\", 0", cs.sd.literals,
                                    sent.pred.obj.noun.text, <<>>)),
        !.st.lines = @ \o PrintLines(Line("push    LITERAL_%d", cs.sd.literals, <<>>, <<>>))]

\* sitelen with a string literal object
PrintString(cs, sent) ==
    [cs EXCEPT
        !.sd.lines = Append(@, Line("LITERAL_%d db \"%s\", 0", cs.sd.literals,
                                    sent.pred.obj.noun.text, <<>>)),
        !.st.lines = @ \o PrintLines(Line("push    LITERAL_%d", cs.sd.literals, <<>>, <<>>)),
        !.sd.literals = @ + 1]

\* the data line of an assignment: written only for a string literal object,
\* otherwise left as malloc returned it (g)
AssignLine(sent, g) ==
    IF is_literal(sent.pred.obj.noun, LITERAL_STRING)
    THEN Line("VARIABLE_%s db \"%s\", 0", 0, sent.subj.noun.text, sent.pred.obj.noun.text)
    ELSE g

\* Assign without the check of the object
AssignAnyObject(cs, sent, g) ==
    IF sent.subj.noun.type # "TOKEN_IDENTIFIER"
    THEN CompileExit(cs, "Subject must be identifier in assignment.")
    ELSE [cs EXCEPT !.sd.lines = Append(@, AssignLine(sent, g))]

\* kama with a subject
Assign(cs, sent, g) ==
    IF sent.subj.noun.type # "TOKEN_IDENTIFIER"
    THEN CompileExit(cs, "Subject must be identifier in assignment.")
    ELSE IF sent.pred.obj.noun.type = "TOKEN_NULL"
    THEN CompileExit(cs, "Assignment statement needs object.")
    ELSE [cs EXCEPT !.sd.lines = Append(@, AssignLine(sent, g))]

\* compile_sentence without the check for a missing verb
compile_sentenceVerbless(cs, sent, g) ==
    IF sent.subj.noun.type = "TOKEN_NULL"
    THEN IF sent.pred.verb.type = "TOKEN_NULL"
         THEN cs
         ELSE IF is_keyword(sent.pred.verb, KEYWORD_SITELEN)
         THEN IF sent.pred.obj.noun.type = "TOKEN_IDENTIFIER"
              THEN PrintIdentifier(cs, sent)
              ELSE IF is_literal(sent.pred.obj.noun, LITERAL_STRING)
              THEN PrintString(cs, sent)
              ELSE CompileExit(cs, "Incorrect object for verb 'sitelen'.")
         ELSE cs
    ELSE IF sent.pred.verb.type = "TOKEN_NULL"
         THEN cs
         ELSE IF is_keyword(sent.pred.verb, KEYWORD_KAMA)
         THEN Assign(cs, sent, g)
         ELSE cs

\* compile_sentence without the check of the object of sitelen
compile_sentenceAnyObject(cs, sent, g) ==
    IF sent.subj.noun.type = "TOKEN_NULL"
    THEN IF sent.pred.verb.type = "TOKEN_NULL"
         THEN CompileExit(cs, "Missing verb in sentence.")
         ELSE IF is_keyword(sent.pred.verb, KEYWORD_SITELEN)
         THEN IF sent.pred.obj.noun.type = "TOKEN_IDENTIFIER"
              THEN PrintIdentifier(cs, sent)
              ELSE IF is_literal(sent.pred.obj.noun, LITERAL_STRING)
              THEN PrintString(cs, sent)
              ELSE cs
         ELSE cs
    ELSE IF sent.pred.verb.type = "TOKEN_NULL"
         THEN cs
         ELSE IF is_keyword(sent.pred.verb, KEYWORD_KAMA)
         THEN Assign(cs, sent, g)
         ELSE cs

\* compile_sentence that takes a lone noun phrase for a missing verb
compile_sentenceNeedsVerb(cs, sent, g) ==
    IF sent.subj.noun.type = "TOKEN_NULL"
    THEN IF sent.pred.verb.type = "TOKEN_NULL"
         THEN CompileExit(cs, "Missing verb in sentence.")
         ELSE IF is_keyword(sent.pred.verb, KEYWORD_SITELEN)
         THEN IF sent.pred.obj.noun.type = "TOKEN_IDENTIFIER"
              THEN PrintIdentifier(cs, sent)
              ELSE IF is_literal(sent.pred.obj.noun, LITERAL_STRING)
              THEN PrintString(cs, sent)
              ELSE CompileExit(cs, "Incorrect object for verb 'sitelen'.")
         ELSE cs
    ELSE IF sent.pred.verb.type = "TOKEN_NULL"
         THEN CompileExit(cs, "Missing verb in sentence.")
         ELSE IF is_keyword(sent.pred.verb, KEYWORD_KAMA)
         THEN Assign(cs, sent, g)
         ELSE cs

\* compile_sentence(sent, sd, st); g is the content of uninitialised storage
compile_sentence(cs, sent, g) ==
    IF sent.subj.noun.type = "TOKEN_NULL"
    THEN IF sent.pred.verb.type = "TOKEN_NULL"
         THEN CompileExit(cs, "Missing verb in sentence.")
         ELSE IF is_keyword(sent.pred.verb, KEYWORD_SITELEN)
         THEN IF sent.pred.obj.noun.type = "TOKEN_IDENTIFIER"
              THEN PrintIdentifier(cs, sent)
              ELSE IF is_literal(sent.pred.obj.noun, LITERAL_STRING)
              THEN PrintString(cs, sent)
              ELSE CompileExit(cs, "Incorrect object for verb 'sitelen'.")
         ELSE cs   \* no else branch: any other verb falls through
    ELSE IF sent.pred.verb.type = "TOKEN_NULL"
         THEN cs   \* a lone noun phrase
         ELSE IF is_keyword(sent.pred.verb, KEYWORD_KAMA)
         THEN Assign(cs, sent, g)
         ELSE cs   \* no else branch: any other verb falls through

CompileLocals == [sd |-> sd, st |-> st, halt |-> halt, err |-> err]

\* one iteration of compile()'s loop
CompileStep ==
    /\ pc = "compile" /\ halt = "running"
    /\ ci < Len(sl)
    /\ \E g \in Indeterminate :
         LET cs == compile_sentence(CompileLocals, sl[ci + 1], g)
         IN  /\ sd' = cs.sd
             /\ st' = cs.st
             /\ halt' = cs.halt
             /\ err' = cs.err
             /\ ci' = IF cs.halt = "running" THEN ci + 1 ELSE ci
    /\ UNCHANGED <<pc, asm, input, prev, scanVars, evalVars, parseVars>>

\* Write reached although a stage has ended the process
WriteAfterError ==
    /\ pc = "compile"
    /\ halt # "running" \/ ci >= Len(sl)
    /\ asm' = [written |-> TRUE, text |-> st.lines, data |-> sd.lines]
    /\ pc' = "end"
    /\ halt' = "exit0"
    /\ UNCHANGED <<err, ci, sd, st, input, prev, scanVars, evalVars, parseVars>>

\* the loop is over: write(outfile, sd, st), make(outfile), then exit(0)
Write ==
    /\ pc = "compile" /\ halt = "running"
    /\ ci >= Len(sl)
    /\ asm' = [written |-> TRUE, text |-> st.lines, data |-> sd.lines]
    /\ pc' = "end"
    /\ halt' = "exit0"
    /\ UNCHANGED <<err, ci, sd, st, input, prev, scanVars, evalVars, parseVars>>

---------------------------------------------------------------------------
(* Inputs *)

\* the sequences over S of length at most n
BSeq(S, n) == UNION {[1..k -> S] : k \in 0..n}

RECURSIVE Join(_, _)
Join(ws, sep) ==
    IF ws = <<>> THEN <<>>
    ELSE IF Len(ws) = 1 THEN ws[1]
    ELSE ws[1] \o sep \o Join(Tail(ws), sep)

KeywordLexemes == {KEYWORDS[k] : k \in 1..KEYWORD_COUNT}

WordX == <<"x">>
WordFoo == <<"f", "o", "o">>
WordKin == <<"k", "i", "n">>
StrToki == <<"\"", "t", "o", "k", "i", "!", "\"">>
StrA == <<"\"", "a", "\"">>
StrB == <<"\"", "b", "\"">>
Num5 == <<"5">>
Num55 == <<"5", ".", "5">>
SP == <<" ">>
DOT == <<".">>

\* o sitelen e "toki!".
SrcHello == Join(<<KEYWORDS[2], KEYWORDS[3], KEYWORDS[1], StrToki>>, SP) \o DOT
\* x li kama e 5.
SrcAssign5 == Join(<<WordX, KEYWORDS[5], KEYWORDS[6], KEYWORDS[1], Num5>>, SP) \o DOT
\* x li 5.
SrcNum == Join(<<WordX, KEYWORDS[5], Num5>>, SP) \o DOT
\* x li 5.5.
SrcFloat == Join(<<WordX, KEYWORDS[5], Num55>>, SP) \o DOT
\* foo.
SrcFoo == WordFoo \o DOT
\* x li kin e "a" e "b".
SrcKin == Join(<<WordX, KEYWORDS[5], WordKin, KEYWORDS[1], StrA, KEYWORDS[1], StrB>>, SP) \o DOT
\* x li kama e "a".
SrcAssignStr == Join(<<WordX, KEYWORDS[5], KEYWORDS[6], KEYWORDS[1], StrA>>, SP) \o DOT
\* o sitelen e x.
SrcPrintX == Join(<<KEYWORDS[2], KEYWORDS[3], KEYWORDS[1], WordX>>, SP) \o DOT

\* o sitelen e "a". x li kama.
SrcPrintThenAssign ==
    Join(<<KEYWORDS[2], KEYWORDS[3], KEYWORDS[1], StrA>>, SP) \o DOT \o SP
        \o Join(<<WordX, KEYWORDS[5], KEYWORDS[6]>>, SP) \o DOT
\* o sitelen e "a". o sitelen e x.
SrcPrintTwice ==
    Join(<<KEYWORDS[2], KEYWORDS[3], KEYWORDS[1], StrA>>, SP) \o DOT \o SP \o SrcPrintX

\* o sitelen e "a". .
SrcPrintThenEmpty ==
    Join(<<KEYWORDS[2], KEYWORDS[3], KEYWORDS[1], StrA>>, SP) \o DOT \o SP \o DOT

ScenarioSources ==
    {SrcHello, SrcAssign5, SrcNum, SrcFloat, SrcFoo, SrcKin, SrcAssignStr, SrcPrintX,
     SrcPrintThenAssign, SrcPrintTwice, SrcPrintThenEmpty}

Words == KeywordLexemes \cup {WordX, StrA}

\* up to MaxWords words joined by single spaces, with or without a final period
WordSources ==
    {Join(ws, SP) \o term : ws \in BSeq(Words, MaxWords), term \in {<<>>, DOT}}

Sources == ScenarioSources \cup WordSources

LexAlphabet == {"e", "x", "5", " ", ".", "\"", "\\", "!"}

\* every text of at most MaxLen characters
LexSources == BSeq(LexAlphabet, MaxLen)

---------------------------------------------------------------------------
(* Specifications *)

\* main() at the call of scan: the locals of each stage hold the values the
\* stage gives them at its entry
InitAt(stage) ==
    /\ pc = stage
    /\ halt = "running"
    /\ err = ""
    /\ p = 1
    /\ q = 1
    /\ mode = "UNKNOWN"
    /\ lex = 0
    /\ i = 0
    /\ pmode = ParseStart.pmode
    /\ s = ParseStart.s
    /\ buffer = ParseStart.buffer
    /\ ci = 0
    /\ sd = CompileStart.sd
    /\ st = CompileStart.st
    /\ asm = [written |-> FALSE, text |-> <<>>, data |-> <<>>]

\* the whole pipeline on a source text
Init ==
    /\ InitAt("scan")
    /\ input \in Sources
    /\ prev \in {NUL, NONNUL}
    /\ lexemes = <<>>
    /\ tokens = <<>>
    /\ sl = <<>>

Next ==
    \/ ScanStep
    \/ ScanReturn
    \/ EvalStep
    \/ EvalReturn
    \/ ParseStep
    \/ ParseReturn
    \/ CompileStep
    \/ Write

Spec == Init /\ [][Next]_vars

\* scan and evaluate on every short text
InitLex ==
    /\ InitAt("scan")
    /\ input \in LexSources
    /\ prev \in {NUL, NONNUL}
    /\ lexemes = <<>>
    /\ tokens = <<>>
    /\ sl = <<>>

NextLex ==
    \/ ScanStep
    \/ ScanReturn
    \/ EvalStep
    \/ EvalReturn

SpecLex == InitLex /\ [][NextLex]_vars

\* every text of at most MaxScanLen characters
ScanSources == BSeq(LexAlphabet, MaxScanLen)

\* scan alone; its loop is the only thing that runs, so it keeps running
InitScan ==
    /\ InitAt("scan")
    /\ input \in ScanSources
    /\ prev \in {NUL, NONNUL}
    /\ lexemes = <<>>
    /\ tokens = <<>>
    /\ sl = <<>>

NextScan ==
    \/ ScanStep
    \/ ScanReturn

SpecScan == InitScan /\ [][NextScan]_vars /\ WF_vars(NextScan)

\* the token evaluate makes of a lexeme it does not drop
Tok(L) == EvalLexeme(L)[1]

TokE == Tok(KEYWORDS[1])
TokO == Tok(KEYWORDS[2])
TokSitelen == Tok(KEYWORDS[3])
TokToki == Tok(KEYWORDS[4])
TokLi == Tok(KEYWORDS[5])
TokKama == Tok(KEYWORDS[6])
TokSin == Tok(KEYWORDS[8])
TokX == Tok(WordX)
TokA == Tok(StrA)
TokPeriod == Tok(DOT)

ParseTokens == {TokE, TokO, TokLi, TokSin, TokSitelen, TokX, TokA, TokPeriod}

\* o sitelen e x "a" e x.
ToksObjectTwice == <<TokO, TokSitelen, TokE, TokX, TokA, TokE, TokX, TokPeriod>>
\* o sitelen e x e.
ToksObjectThenNone == <<TokO, TokSitelen, TokE, TokX, TokE, TokPeriod>>
\* x "a" li sitelen "a" e x "a". o sitelen e "a".
ToksFull ==
    <<TokX, TokA, TokLi, TokSitelen, TokA, TokE, TokX, TokA, TokPeriod,
      TokO, TokSitelen, TokE, TokA, TokPeriod>>

\* o sitelen e x "a" sin x.
ToksSinObject == <<TokO, TokSitelen, TokE, TokX, TokA, TokSin, TokX, TokPeriod>>
\* x "a" li sitelen e x. o sitelen e x "a"
ToksUnterminated ==
    <<TokX, TokA, TokLi, TokSitelen, TokE, TokX, TokPeriod, TokO, TokSitelen, TokE, TokX, TokA>>

ParseScenarios ==
    {ToksObjectTwice, ToksObjectThenNone, ToksFull, ToksSinObject, ToksUnterminated}

\* parse called on every short token list
InitParse ==
    /\ InitAt("parse")
    /\ input = <<>>
    /\ prev = NONNUL
    /\ lexemes = <<>>
    /\ tokens \in BSeq(ParseTokens, MaxTokens) \cup ParseScenarios
    /\ sl = <<>>

NextParse ==
    \/ ParseStep
    \/ ParseReturn

SpecParse == InitParse /\ [][NextParse]_vars

\* n identifiers in a row
Run(n) == [k \in 1..n |-> TokX]

\* a run of up to MaxRun tokens between two triggers, in the first sentence
\* or after a trigger
LongTokenLists ==
    {before \o Run(n) \o after :
        before \in {<<>>, <<TokO>>, <<TokX, TokPeriod>>, <<TokO, TokSitelen, TokE>>},
        n \in 0..MaxRun,
        after \in {<<>>, <<TokPeriod>>, <<TokLi, TokSitelen, TokPeriod>>,
                   <<TokE, TokA, TokPeriod, TokX, TokPeriod>>}}

\* parse called on token lists with long runs
InitParseLong ==
    /\ InitAt("parse")
    /\ input = <<>>
    /\ prev = NONNUL
    /\ lexemes = <<>>
    /\ tokens \in LongTokenLists
    /\ sl = <<>>

SpecParseLong == InitParseLong /\ [][NextParse]_vars

NounPhrase(noun) == [NOUNPHRASE_DEFAULT EXCEPT !.noun = noun]

Sentence(subj, verb, obj) ==
    [subj |-> NounPhrase(subj),
     pred |-> [verb |-> verb, advp |-> TOKENLIST_DEFAULT, obj |-> NounPhrase(obj)]]

Sentences ==
    {Sentence(subj, verb, obj) :
        subj \in {TOKEN_DEFAULT, TokX, TokA},
        verb \in {TOKEN_DEFAULT, TokSitelen, TokKama, TokToki},
        obj \in {TOKEN_DEFAULT, TokX, TokA, TokKama}}

\* compile called on every short sentence list
InitCompile ==
    /\ InitAt("compile")
    /\ input = <<>>
    /\ prev = NONNUL
    /\ lexemes = <<>>
    /\ tokens = <<>>
    /\ sl \in BSeq(Sentences, MaxSentences)

NextCompile ==
    \/ CompileStep
    \/ Write

SpecCompile == InitCompile /\ [][NextCompile]_vars

---------------------------------------------------------------------------
(* Vocabulary of the properties *)

Failed == halt \in {"exit1", "segv", "abort"}

\* evaluate (and scan before it) has returned
Evaluated == pc \notin {"scan", "evaluate"}

\* the step about to be taken is an iteration of compile's loop on sentence sent
CompilingSentence == pc = "compile" /\ halt = "running" /\ ci < Len(sl)

\* the step about to be taken is an iteration of evaluate's loop
EvaluatingLexeme == pc = "evaluate" /\ halt = "running" /\ lex < Len(lexemes)

\* the step about to be taken is an iteration of parse's loop
ParsingToken == pc = "parse" /\ halt = "running" /\ i < Len(tokens)

IsPrintString(sent) ==
    /\ sent.subj.noun.type = "TOKEN_NULL"
    /\ is_keyword(sent.pred.verb, KEYWORD_SITELEN)
    /\ is_literal(sent.pred.obj.noun, LITERAL_STRING)

\* the data line declaring label LITERAL_n with the given bytes
LiteralDecl(n, bytes) == Line("LITERAL_%d db \"%s\", 0", n, bytes, <<>>)

\* push LITERAL_n / call print / stack cleanup
LiteralTriple(n) ==
    <<Line("push    LITERAL_%d", n, <<>>, <<>>),
      Line("call    _printf", 0, <<>>, <<>>),
      Line("add     esp, 4", 0, <<>>, <<>>)>>

---------------------------------------------------------------------------
(* C1 *)

\* The compile_sentence half of C1: on a subjectless sitelen sentence with a
\* string literal object, one data line LITERAL_n, the text triple, counter + 1.
C1_PrintStringStep ==
    [][(CompilingSentence /\ IsPrintString(sl[ci + 1])) =>
        /\ sd'.lines = Append(sd.lines, LiteralDecl(sd.literals, sl[ci + 1].pred.obj.noun.text))
        /\ st'.lines = st.lines \o LiteralTriple(sd.literals)
        /\ sd'.literals = sd.literals + 1
        /\ halt' = "running"]_vars

\* The end-to-end half of C1: the run on  o sitelen e "toki!".  does not fail
\* and what it writes is one data line holding toki! and the text triple.
C1_HelloWritten ==
    input = SrcHello =>
        /\ ~Failed
        /\ halt = "exit0" =>
            /\ asm.data = <<LiteralDecl(0, <<"t", "o", "k", "i", "!">>)>>
            /\ asm.text = LiteralTriple(0)

\* C1: a subjectless `sitelen` sentence with a string literal object compiles
\* to one data line LITERAL_n, the push/call/cleanup triple and counter + 1;
\* in particular  o sitelen e "toki!".  yields one data line holding toki!
\* and that triple.
C1_PrintString == C1_PrintStringStep /\ []C1_HelloWritten

---------------------------------------------------------------------------
(* C2 *)

\* a data line binding `name` to integer storage initialised to v
BindsInteger(l, name, v) == l.str1 = name /\ l.num = v /\ l.str2 = <<>>

\* C2: the run on  x li kama e 5.  completes without error and writes a data
\* section of exactly one declaration binding x to integer storage
\* initialised to 5, and an empty text section.
C2_AssignInteger ==
    input = SrcAssign5 =>
        /\ ~Failed
        /\ halt = "exit0" =>
            /\ Len(asm.data) = 1
            /\ BindsInteger(asm.data[1], WordX, 5)
            /\ asm.text = <<>>

---------------------------------------------------------------------------
(* C3 *)

IsPeriod(t) == is_seperator(t, SEPARATOR_PERIOD)

\* the positions of the separators among the first n tokens of toks
PeriodsIn(toks, n) == {k \in 1..n : IsPeriod(toks[k])}

\* the period-terminated sentences of toks, in order; tokens after the last
\* separator belong to none
RECURSIVE SplitSentences(_)
SplitSentences(toks) ==
    IF PeriodsIn(toks, Len(toks)) = {} THEN <<>>
    ELSE LET k == CHOOSE j \in PeriodsIn(toks, Len(toks)) :
                      \A m \in PeriodsIn(toks, Len(toks)) : j <= m
         IN  <<SubSeq(toks, 1, k)>> \o SplitSentences(SubSeq(toks, k + 1, Len(toks)))

\* every token belongs to a period-terminated sentence
PeriodTerminated(toks) == toks = <<>> \/ IsPeriod(toks[Len(toks)])

\* a sentence is well formed when parse, given it alone, returns
WellFormedSentence(sent) == ParseAll(sent).halt = "running"

WellFormedStream(toks) ==
    /\ PeriodTerminated(toks)
    /\ \A k \in 1..Len(SplitSentences(toks)) : WellFormedSentence(SplitSentences(toks)[k])

\* the Sentence parse returns for sentence number k of toks parsed alone
ParsedAlone(toks, k) == ParseAll(SplitSentences(toks)[k]).sl[1]

\* C3: parsing N consecutive well-formed period-terminated sentences yields
\* exactly N Sentence values, one per separator and in source order, the k-th
\* equal to the parse of the k-th sentence alone; nothing (mode, buffer, slot)
\* is carried over a separator.
C3_Segmentation ==
    (pc \in {"parse", "compile"} /\ WellFormedStream(tokens)) =>
        /\ halt = "running"
        /\ Len(sl) = Cardinality(PeriodsIn(tokens, i))
        /\ \A k \in 1..Len(sl) : sl[k] = ParsedAlone(tokens, k)
        /\ pc = "compile" => Len(sl) = Len(SplitSentences(tokens))
        /\ (i > 0 /\ IsPeriod(tokens[i])) =>
              pmode = "PHRASE_EN" /\ buffer = <<>> /\ s = SENTENCE_DEFAULT

\* two sentences were parsed, the first with a verb marker and a verb, and
\* they differ
C3_Witness ==
    /\ pc = "compile"
    /\ WellFormedStream(tokens)
    /\ Len(sl) = 2
    /\ sl[1].pred.verb # TOKEN_DEFAULT
    /\ sl[1] # sl[2]

---------------------------------------------------------------------------
(* C4 *)

\* a letter followed by alphanumerics
IsWord(w) == w # <<>> /\ isalpha(w[1]) /\ \A k \in 1..Len(w) : isalnum(w[k])

\* the text before the last character of the source
AllButLast(text) == SubSeq(text, 1, Len(text) - 1)

\* scan(w + ".") returns [w, "."]
C4_WordThenPeriod ==
    (Len(input) >= 2 /\ input[Len(input)] = "." /\ IsWord(AllButLast(input))) =>
        /\ ~Failed
        /\ pc # "scan" => lexemes = <<AllButLast(input), DOT>>

\* a word ended by the separator: the word, then the separator on its own
C4_SeparatorStep ==
    [][(pc = "scan" /\ halt = "running" /\ ScanLoopCond /\ mode = "TEXT" /\ CharAt(p) = ".") =>
        lexemes' = lexemes \o <<SubSeq(input, q, p - 1), DOT>>]_vars

\* C4: the separator is never swallowed into a word: scan(w + ".") returns
\* exactly [w, "."] for every word w, and a word ended by the separator is
\* emitted first, the one-character separator lexeme right after it.
C4_SeparatorNotSwallowed == []C4_WordThenPeriod /\ C4_SeparatorStep

---------------------------------------------------------------------------
(* C5 *)

\* C5: scanning  x li 5.  yields ["x","li","5","."] and scanning  x li 5.5.
\* yields ["x","li","5.5","."].
C5_Numbers ==
    /\ input = SrcNum =>
          ~Failed /\ (pc # "scan" => lexemes = <<WordX, KEYWORDS[5], Num5, DOT>>)
    /\ input = SrcFloat =>
          ~Failed /\ (pc # "scan" => lexemes = <<WordX, KEYWORDS[5], Num55, DOT>>)

---------------------------------------------------------------------------
(* C6 *)

KeywordSeqs == BSeq(0..(KEYWORD_COUNT - 1), MaxWords)

\* the keyword lexemes of kws joined by single spaces
JoinedKeywords(kws) == Join([k \in 1..Len(kws) |-> KEYWORDS[kws[k] + 1]], SP)

\* C6: for every sequence of keyword lexemes, evaluate(scan(the lexemes joined
\* by single spaces)) is a token sequence of the same length whose k-th token
\* is the Keyword of the k-th lexeme.
C6_KeywordRoundTrip ==
    \A kws \in KeywordSeqs :
        input = JoinedKeywords(kws) =>
            /\ pc \in {"scan", "evaluate"} => ~Failed
            /\ Evaluated =>
                /\ Len(tokens) = Len(kws)
                /\ \A k \in 1..Len(kws) :
                      tokens[k].type = "TOKEN_KEYWORD" /\ tokens[k].id = kws[k]

---------------------------------------------------------------------------
(* C7 *)

\* an iteration of evaluate on a keyword string appends the Keyword token
C7_KeywordStep ==
    [][\A kw \in 0..(KEYWORD_COUNT - 1) :
          (EvaluatingLexeme /\ lexemes[lex + 1] = KEYWORDS[kw + 1]) =>
              /\ Len(tokens') = Len(tokens) + 1
              /\ tokens'[Len(tokens')].type = "TOKEN_KEYWORD"
              /\ tokens'[Len(tokens')].id = kw]_vars

\* no Identifier token carries a keyword string
C7_NoKeywordIdentifier ==
    \A k \in 1..Len(tokens) :
        tokens[k].type = "TOKEN_IDENTIFIER" => tokens[k].text \notin KeywordLexemes

\* C7: a lexeme equal to a keyword string is classified as the Keyword of that
\* identity, never as an Identifier, although it has the shape of one.
C7_KeywordPrecedence == C7_KeywordStep /\ []C7_NoKeywordIdentifier

\* evaluate has just classified the lexeme sitelen, an identifier shape, as
\* the keyword
C7_Witness ==
    /\ pc = "evaluate"
    /\ lex > 0
    /\ lexemes[lex] = KEYWORDS[KEYWORD_SITELEN + 1]
    /\ IsIdentifier(lexemes[lex])
    /\ Len(tokens) = lex
    /\ is_keyword(tokens[lex], KEYWORD_SITELEN)

---------------------------------------------------------------------------
(* C8 *)

\* no branch of the classification matches
Unmatched(L) ==
    /\ KeywordMatches(L) = {}
    /\ ~IsStringLexeme(L)
    /\ ~(L # <<>> /\ isdigit(L[1]))
    /\ ~IsIdentifier(L)
    /\ SeparatorMatches(L) = {}

\* C8: evaluate never silently drops a lexeme: an unmatched lexeme ends the
\* run with a fatal error, so when evaluate returns there is one token per
\* lexeme.
C8_NoSilentDrop ==
    /\ [][(EvaluatingLexeme /\ Unmatched(lexemes[lex + 1])) => halt' = "exit1"]_vars
    /\ [](Evaluated => Len(tokens) = Len(lexemes))

---------------------------------------------------------------------------
(* C9 *)

\* C9: meeting `e` in Subject mode ends parse with the word-order error,
\* whatever the pending buffer holds, and parse returns nothing.
C9_ObjectBeforeVerb ==
    /\ [][(ParsingToken /\ is_keyword(tokens[i + 1], KEYWORD_E) /\ pmode = "PHRASE_EN") =>
            /\ halt' = "exit1"
            /\ err' = "Error, invalid word order SO"
            /\ pc' = "parse" /\ sl' = sl]_vars
    /\ [](halt = "exit1" => pc = "parse")

\* the error was raised with a token pending in the buffer
C9_Witness ==
    /\ halt = "exit1"
    /\ err = "Error, invalid word order SO"
    /\ pmode = "PHRASE_EN"
    /\ is_keyword(tokens[i + 1], KEYWORD_E)
    /\ Len(buffer) >= 1

---------------------------------------------------------------------------
(* C10 *)

IsVerbMarker(t) == is_keyword(t, KEYWORD_O) \/ is_keyword(t, KEYWORD_LI)

\* C10: meeting `o` or `li` in Verb or Object mode ends parse with a fatal
\* grammar error: a second predicate is never accepted.
C10_SecondPredicate ==
    [][(ParsingToken /\ IsVerbMarker(tokens[i + 1]) /\ pmode \in {"PHRASE_O", "PHRASE_E"}) =>
          /\ halt' = "exit1"
          /\ err' \in {"Unimplemented: cannot use multiple predicates",
                       "Unimplemented: cannot conjoin predicates"}
          /\ pmode' = pmode /\ s' = s /\ sl' = sl /\ pc' = "parse"]_vars

\* `li` met in Object mode was rejected
C10_Witness ==
    /\ halt = "exit1"
    /\ pmode = "PHRASE_E"
    /\ is_keyword(tokens[i + 1], KEYWORD_LI)
    /\ err = "Unimplemented: cannot use multiple predicates"

---------------------------------------------------------------------------
(* C11 *)

IsSin(t) == is_keyword(t, KEYWORD_SIN)

\* C11: meeting `sin` with an empty pending buffer (in any mode), or in Verb
\* mode (whatever the buffer holds), ends parse with a fatal error; nothing is
\* added to the sentence list.
C11_SinRejected ==
    [][(ParsingToken /\ IsSin(tokens[i + 1]) /\ (Len(buffer) = 0 \/ pmode = "PHRASE_O")) =>
          /\ halt' = "exit1"
          /\ err' \in {"Prepositions not allowed after verb phrases.",
                       "Monadic 'sin' is not allowed."}
          /\ (pmode = "PHRASE_O" => err' = "Prepositions not allowed after verb phrases.")
          /\ (pmode # "PHRASE_O" => err' = "Monadic 'sin' is not allowed.")
          /\ pmode' = pmode /\ s' = s /\ sl' = sl /\ pc' = "parse"]_vars

\* `sin` met in Verb mode with a token pending was rejected
C11_Witness ==
    /\ halt = "exit1"
    /\ pc = "parse"
    /\ pmode = "PHRASE_O"
    /\ IsSin(tokens[i + 1])
    /\ Len(buffer) >= 1
    /\ err = "Prepositions not allowed after verb phrases."

---------------------------------------------------------------------------
(* C12 *)

\* the prepositional-phrase list of the phrase a mode fills
PplOf(m, sent) == IF m = "PHRASE_EN" THEN sent.subj.ppl ELSE sent.pred.obj.ppl

\* C12: `sin` met in Subject or Object mode with a token pending appends one
\* entry to that phrase's prepositional-phrase list, into valid storage, and
\* switches parse to Prepositional mode; parse goes on.
C12_SinAppends ==
    [][(ParsingToken /\ IsSin(tokens[i + 1]) /\ pmode \in {"PHRASE_EN", "PHRASE_E"}
            /\ Len(buffer) >= 1) =>
          /\ halt' = "running"
          /\ pmode' = "PHRASE_PREP"
          /\ PplOf(pmode, s').list # "NULL"
          /\ PplOf(pmode, s').size = PplOf(pmode, s).size + 1]_vars

---------------------------------------------------------------------------
(* C13 *)

IsFlushTrigger(t) ==
    IsVerbMarker(t) \/ is_keyword(t, KEYWORD_E) \/ is_seperator(t, SEPARATOR_PERIOD)

\* head and modifiers of the phrase a mode fills
Slots(m, sent) ==
    CASE m = "PHRASE_EN" -> [head |-> sent.subj.noun, tail |-> sent.subj.adjp]
      [] m = "PHRASE_O" -> [head |-> sent.pred.verb, tail |-> sent.pred.advp]
      [] m = "PHRASE_E" -> [head |-> sent.pred.obj.noun, tail |-> sent.pred.obj.adjp]

\* what a buffer is said to leave in the slots
Flushed(buf) ==
    [head |-> IF Len(buf) = 0 THEN TOKEN_DEFAULT ELSE buf[1],
     tail |-> IF Len(buf) >= 2 THEN Tail(buf) ELSE <<>>]

\* C13: after every flush at `o`/`li`, `e` or the period, the slots of the mode
\* being left hold exactly what the buffer held: null head for an empty buffer,
\* the single token and no modifiers for one token, first token and the rest in
\* order for two or more; also when the slots are flushed into a second time.
C13_FlushExact ==
    [][(ParsingToken /\ IsFlushTrigger(tokens[i + 1]) /\ halt' = "running") =>
          LET dest == IF is_seperator(tokens[i + 1], SEPARATOR_PERIOD)
                      THEN sl'[Len(sl')]
                      ELSE s'
          IN  Slots(pmode, dest) = Flushed(buffer)]_vars

---------------------------------------------------------------------------
(* C14 *)

NoSubject(sent) == sent.subj.noun.type = "TOKEN_NULL"

NoVerb(sent) == sent.pred.verb.type = "TOKEN_NULL"

\* the sentence shapes compile_sentence gives a meaning or a named error
EnumeratedShape(sent) ==
    \/ NoSubject(sent) /\ NoVerb(sent)
    \/ NoSubject(sent) /\ is_keyword(sent.pred.verb, KEYWORD_SITELEN)
    \/ ~NoSubject(sent) /\ NoVerb(sent)
    \/ ~NoSubject(sent) /\ is_keyword(sent.pred.verb, KEYWORD_KAMA)

\* C14: compile_sentence ends the run with a fatal error for every sentence
\* that is none of: subjectless print, subject + assign, bare noun phrase,
\* subjectless without verb.
C14_OtherShapesRejected ==
    [][(CompilingSentence /\ ~EnumeratedShape(sl[ci + 1])) => halt' = "exit1"]_vars

---------------------------------------------------------------------------
(* C15 *)

\* C15: a sentence with neither subject nor verb ends the run with the
\* "missing verb" error; the data and text sections stay as they were and
\* nothing is written.
C15_MissingVerb ==
    [][(CompilingSentence /\ NoSubject(sl[ci + 1]) /\ NoVerb(sl[ci + 1])) =>
          /\ halt' = "exit1"
          /\ err' = "Missing verb in sentence."
          /\ sd' = sd /\ st' = st /\ asm' = asm /\ pc' = "compile"]_vars

\* the error was raised on a second sentence, after a print was compiled
C15_Witness ==
    /\ pc = "compile" /\ halt = "exit1"
    /\ err = "Missing verb in sentence."
    /\ ci = 1
    /\ NoSubject(sl[ci + 1]) /\ NoVerb(sl[ci + 1])
    /\ Len(st.lines) = 3 /\ Len(sd.lines) = 1
    /\ ~asm.written

---------------------------------------------------------------------------
(* C16 *)

IsPrint(sent) == NoSubject(sent) /\ is_keyword(sent.pred.verb, KEYWORD_SITELEN)

\* C16: a subjectless print whose object head is neither an identifier nor a
\* literal (missing, or a keyword) ends the run with the "incorrect object"
\* error and appends nothing to the data or text section.
C16_PrintBadObject ==
    [][(CompilingSentence /\ IsPrint(sl[ci + 1])
            /\ sl[ci + 1].pred.obj.noun.type \notin {"TOKEN_IDENTIFIER", "TOKEN_LITERAL"}) =>
          /\ halt' = "exit1"
          /\ err' = "Incorrect object for verb 'sitelen'."
          /\ sd' = sd /\ st' = st /\ asm' = asm]_vars

\* a print of a keyword was rejected after an earlier print was compiled
C16_Witness ==
    /\ pc = "compile" /\ halt = "exit1"
    /\ err = "Incorrect object for verb 'sitelen'."
    /\ ci = 1
    /\ IsPrint(sl[ci + 1])
    /\ sl[ci + 1].pred.obj.noun.type = "TOKEN_KEYWORD"
    /\ Len(st.lines) = 3

---------------------------------------------------------------------------
(* C17 *)

\* push VARIABLE_name / call print / stack cleanup
VariableTriple(name) ==
    <<Line("push    VARIABLE_%s", 0, name, <<>>),
      Line("call    _printf", 0, <<>>, <<>>),
      Line("add     esp, 4", 0, <<>>, <<>>)>>

\* C17: a subjectless print of an identifier appends exactly the three text
\* lines push VARIABLE_<name>, call _printf, add esp, 4, in that order, and
\* leaves the data lines and the literal counter unchanged.
C17_PrintIdentifier ==
    [][(CompilingSentence /\ IsPrint(sl[ci + 1])
            /\ sl[ci + 1].pred.obj.noun.type = "TOKEN_IDENTIFIER") =>
          /\ halt' = "running"
          /\ st'.lines = st.lines \o VariableTriple(sl[ci + 1].pred.obj.noun.text)
          /\ sd' = sd
          /\ ci' = ci + 1]_vars

\* the identifier was printed after a string: the counter stands at one
C17_Witness ==
    /\ pc = "compile" /\ halt = "running"
    /\ ci = 2
    /\ IsPrintString(sl[1])
    /\ IsPrint(sl[2]) /\ sl[2].pred.obj.noun.type = "TOKEN_IDENTIFIER"
    /\ Len(st.lines) = 6
    /\ sd.literals = 1 /\ Len(sd.lines) = 1

---------------------------------------------------------------------------
(* C18 *)

IsAssign(sent) == ~NoSubject(sent) /\ is_keyword(sent.pred.verb, KEYWORD_KAMA)

\* C18: an assignment whose subject head is not an identifier, or whose
\* object head is null, ends the run with a fatal error and appends nothing to
\* the data or text section.
C18_AssignRejected ==
    [][(CompilingSentence /\ IsAssign(sl[ci + 1])) =>
          /\ (sl[ci + 1].subj.noun.type # "TOKEN_IDENTIFIER" =>
                 /\ halt' = "exit1"
                 /\ err' = "Subject must be identifier in assignment."
                 /\ sd' = sd /\ st' = st /\ asm' = asm)
          /\ (sl[ci + 1].pred.obj.noun.type = "TOKEN_NULL" =>
                 /\ halt' = "exit1"
                 /\ err' \in {"Subject must be identifier in assignment.",
                              "Assignment statement needs object."}
                 /\ sd' = sd /\ st' = st /\ asm' = asm)]_vars

\* an assignment to an identifier without object was rejected
C18_Witness ==
    /\ pc = "compile" /\ halt = "exit1"
    /\ err = "Assignment statement needs object."
    /\ IsAssign(sl[ci + 1])
    /\ sl[ci + 1].subj.noun.type = "TOKEN_IDENTIFIER"
    /\ sl[ci + 1].pred.obj.noun.type = "TOKEN_NULL"

---------------------------------------------------------------------------
(* C19 *)

\* C19: a sentence with a subject and no verb compiles without error and
\* leaves the data lines, the text lines and the literal counter unchanged.
C19_BareNounPhrase ==
    [][(CompilingSentence /\ ~NoSubject(sl[ci + 1]) /\ NoVerb(sl[ci + 1])) =>
          /\ halt' = "running" /\ err' = err
          /\ sd' = sd /\ st' = st
          /\ ci' = ci + 1]_vars

\* a bare noun phrase was compiled after a print, and the run went on to write
C19_Witness ==
    /\ asm.written
    /\ Len(sl) = 2
    /\ IsPrintString(sl[1])
    /\ ~NoSubject(sl[2]) /\ NoVerb(sl[2])
    /\ Len(asm.text) = 3 /\ Len(asm.data) = 1

---------------------------------------------------------------------------
(* C20 *)

\* main(): scan, evaluate, parse, compile (with write at its end)
StageOrder ==
    {<<"scan", "evaluate">>, <<"evaluate", "parse">>, <<"parse", "compile">>,
     <<"compile", "end">>}

\* C20: the stages run in the order scan, evaluate, parse, compile_sentence
\* (once per sentence, in sentence order), write; each stage works only in its
\* turn; after a fatal error nothing more happens; the assembly is written only
\* when every stage has consumed all of its input without error, so a failed
\* run never writes a partial data or text section.
C20_FirstErrorEndsRun ==
    /\ [][~Failed]_vars
    /\ [][pc' # pc => <<pc, pc'>> \in StageOrder]_vars
    /\ [][/\ scanVars' # scanVars => pc = "scan"
          /\ evalVars' # evalVars => pc = "evaluate"
          /\ parseVars' # parseVars => pc = "parse"
          /\ <<ci, sd, st>>' # <<ci, sd, st>> => pc = "compile"
          /\ asm' # asm => pc = "compile" /\ pc' = "end"]_vars
    /\ [][CompilingSentence => (ci' = ci + 1 \/ Failed')]_vars
    /\ [](asm.written =>
            /\ pc = "end" /\ halt = "exit0"
            /\ lex = Len(lexemes) /\ i = Len(tokens) /\ ci = Len(sl)
            /\ asm.text = st.lines /\ asm.data = sd.lines)
    /\ [](Failed => asm = [written |-> FALSE, text |-> <<>>, data |-> <<>>])

\* the second sentence failed with the lines of the first already in the
\* sections, and nothing was written
C20_Witness ==
    /\ pc = "compile" /\ halt = "exit1"
    /\ ci = 1
    /\ Len(st.lines) = 3 /\ Len(sd.lines) = 1
    /\ ~asm.written

---------------------------------------------------------------------------
(* C21 *)

\* the step about to be taken is an iteration of scan's loop
ScanningChar == pc = "scan" /\ halt = "running" /\ ScanLoopCond

\* the characters the Idle state has a meaning for
IdleKnown(c) == isspace(c) \/ iscntrl(c) \/ isalpha(c) \/ c = "\"" \/ isdigit(c) \/ c = "."

\* C21: in the Idle state a character that is not whitespace, a control
\* character, alphabetic, a double quote, a digit or the separator ends the run
\* in scan; the lexemes found so far are not returned to evaluate.
C21_UnknownCharacter ==
    /\ [][(ScanningChar /\ mode = "UNKNOWN" /\ ~IdleKnown(CharAt(p))) =>
            /\ Failed'
            /\ pc' = "scan"
            /\ lexemes' = lexemes /\ tokens' = tokens]_vars
    /\ [](Failed => pc = "scan" /\ tokens = <<>>)

\* `!` was met in the Idle state after a lexeme had been emitted
C21_Witness ==
    /\ pc = "scan" /\ Failed
    /\ mode = "UNKNOWN"
    /\ CharAt(p) = "!"
    /\ Len(lexemes) >= 1

---------------------------------------------------------------------------
(* C22 *)

\* C22: scan terminates on every source text: every step that does not end
\* the run moves the cursor forward, the cursor never passes the position after
\* the end marker, and every run of scan ends by returning or by a fatal error.
C22_ScanTerminates ==
    /\ [][(ScanningChar /\ ~Failed') => p' > p]_vars
    /\ [](p <= Len(input) + 2)
    /\ <>(pc = "evaluate" \/ Failed)

\* scan returned from the InString state with a backslash as the last character
C22_Witness ==
    /\ pc = "evaluate"
    /\ mode = "STRING"
    /\ Len(input) >= 2
    /\ input[Len(input)] = "\\"
    /\ p = Len(input) + 2

---------------------------------------------------------------------------
(* C28 *)

AllAlnum(L) == \A k \in 1..Len(L) : isalnum(L[k])

\* C28: every lexeme emitted from the InWord state is made of alphanumeric
\* characters only.
C28_WordsAlphanumeric ==
    [][(ScanningChar /\ mode = "TEXT" /\ lexemes' # lexemes) => AllAlnum(lexemes'[Len(lexemes) + 1])]_vars

---------------------------------------------------------------------------
(* C23 *)

\* index of the last period of toks, 0 if there is none
LastPeriod(toks) ==
    LET ks == {k \in 1..Len(toks) : IsPeriod(toks[k])}
    IN  IF ks = {} THEN 0 ELSE CHOOSE k \in ks : \A j \in ks : j <= k

\* C23: what parse returns is what it returns for the tokens up to the last
\* period, one sentence per period: the tokens after the last period are in no
\* returned sentence.
C23_TrailingNotCommitted ==
    [](pc = "compile" =>
          /\ Len(sl) = Cardinality(PeriodsIn(tokens, Len(tokens)))
          /\ sl = ParseAll(SubSeq(tokens, 1, LastPeriod(tokens))).sl)

\* parse returned one sentence and left a started second one uncommitted
C23_Witness ==
    /\ pc = "compile"
    /\ Len(sl) = 1
    /\ LastPeriod(tokens) < Len(tokens)
    /\ pmode = "PHRASE_E"
    /\ Len(buffer) = 2
    /\ s.pred.verb = TokSitelen

---------------------------------------------------------------------------
(* C25 *)

\* C25: `sin` met in Object mode with two or more tokens pending makes the
\* first the object head and the rest the object modifiers, and leaves the
\* subject noun phrase as it was.
C25_SinFlushesObject ==
    [][(ParsingToken /\ IsSin(tokens[i + 1]) /\ pmode = "PHRASE_E" /\ Len(buffer) >= 2) =>
          /\ s'.pred.obj.noun = buffer[1]
          /\ s'.pred.obj.adjp = Tail(buffer)
          /\ s'.subj.noun = s.subj.noun
          /\ s'.subj.adjp = s.subj.adjp]_vars

---------------------------------------------------------------------------
(* C26 *)

IsTrigger(t) == IsVerbMarker(t) \/ is_keyword(t, KEYWORD_E) \/ IsSin(t)

\* C26: a token that is neither `o`, `li`, `e`, `sin` nor the period is
\* appended at the end of the pending buffer; the mode, the sentence in
\* progress and the completed sentences stay as they were.
C26_OtherTokenBuffered ==
    [][(ParsingToken /\ ~IsTrigger(tokens[i + 1]) /\ ~IsPeriod(tokens[i + 1])) =>
          /\ buffer' = Append(buffer, tokens[i + 1])
          /\ pmode' = pmode /\ s' = s /\ sl' = sl
          /\ halt' = "running" /\ i' = i + 1]_vars

\* a second token was buffered in Object mode of a second sentence
C26_Witness ==
    /\ pc = "parse" /\ halt = "running"
    /\ pmode = "PHRASE_E"
    /\ Len(buffer) = 2
    /\ Len(sl) = 1
    /\ s.pred.verb = TokSitelen
    /\ s.pred.obj.noun = TOKEN_DEFAULT

---------------------------------------------------------------------------
(* C24 *)

\* a lexeme without its first and its last character
Unquoted(L) == SubSeq(L, 2, Len(L) - 1)

\* C24: for every string lexeme scan emits, evaluate appends a string literal
\* whose text is the lexeme without its first and its last quote, also when
\* the body holds a backslash-escaped quote.
C24_StringLiteralText ==
    [][(EvaluatingLexeme /\ IsStringLexeme(lexemes[lex + 1])) =>
          /\ Len(tokens') = Len(tokens) + 1
          /\ is_literal(tokens'[Len(tokens')], LITERAL_STRING)
          /\ tokens'[Len(tokens')].text = Unquoted(lexemes[lex + 1])]_vars

---------------------------------------------------------------------------
(* C27 *)

\* C27: the source `x li kin e "a" e "b".` is either rejected or gives a
\* sentence whose subject phrase for x carries a second prepositional-phrase
\* entry; the run does not end normally with the first object dropped.
C27_SecondObjectKept ==
    []((input = SrcKin /\ asm.written) =>
          \E k \in 1..Len(sl) :
              /\ sl[k].subj.noun = TokX
              /\ sl[k].subj.ppl.size >= 2)

---------------------------------------------------------------------------
(* C29 *)

IsAccepted(sent) ==
    /\ IsAssign(sent)
    /\ sent.subj.noun.type = "TOKEN_IDENTIFIER"
    /\ sent.pred.obj.noun.type # "TOKEN_NULL"

\* a line that declares the subject's name, built from a format
WellFormedDecl(l, sent) == l \notin Indeterminate /\ l.str1 = sent.subj.noun.text

\* C29: an accepted assignment appends exactly one data line, a declaration
\* of the subject's name initialised from the object, whatever the kind of the
\* object head; the text section stays as it was.
C29_AssignDeclares ==
    [][(CompilingSentence /\ IsAccepted(sl[ci + 1])) =>
          /\ halt' = "running"
          /\ st' = st
          /\ Len(sd'.lines) = Len(sd.lines) + 1
          /\ SubSeq(sd'.lines, 1, Len(sd.lines)) = sd.lines
          /\ WellFormedDecl(sd'.lines[Len(sd'.lines)], sl[ci + 1])]_vars

---------------------------------------------------------------------------
(* C30 *)

IsPrefix(a, b) == Len(a) <= Len(b) /\ SubSeq(b, 1, Len(a)) = a

IsLiteralDecl(l) == l.fmt = "LITERAL_%d db \"%s\", 0"

\* the lines a step appends to a section
Appended(old, new) == SubSeq(new, Len(old) + 1, Len(new))

\* C30: over the calls of compile_sentence the data and text sections only
\* grow at the end, the literal counter never decreases, the LITERAL_n labels
\* declared in the data section are pairwise distinct, and each is the label
\* pushed by the text triple appended in the same call.
C30_AppendOnly ==
    /\ [][CompilingSentence =>
            /\ IsPrefix(sd.lines, sd'.lines)
            /\ IsPrefix(st.lines, st'.lines)
            /\ sd'.literals >= sd.literals
            /\ \A k \in 1..Len(Appended(sd.lines, sd'.lines)) :
                  IsLiteralDecl(Appended(sd.lines, sd'.lines)[k]) =>
                      Appended(st.lines, st'.lines) =
                          LiteralTriple(Appended(sd.lines, sd'.lines)[k].num)]_vars
    /\ [](\A a, b \in 1..Len(sd.lines) :
            (a # b /\ IsLiteralDecl(sd.lines[a]) /\ IsLiteralDecl(sd.lines[b])) =>
                sd.lines[a].num # sd.lines[b].num)
    /\ [](asm.written => asm.data = sd.lines /\ asm.text = st.lines)

\* two strings were printed: LITERAL_0 and LITERAL_1 are declared
C30_Witness ==
    /\ pc = "compile"
    /\ ci = 2
    /\ sd.literals = 2
    /\ Len(sd.lines) = 2
    /\ IsLiteralDecl(sd.lines[1]) /\ IsLiteralDecl(sd.lines[2])
    /\ Len(st.lines) = 6

---------------------------------------------------------------------------
(* C31 *)

\* C31: while parse runs, the pending buffer holds at most 10 tokens, the
\* capacity it was allocated with, however many tokens come between two
\* triggers.
C31_BufferWithinCapacity ==
    pc = "parse" => Len(buffer) <= BufferCapacity

---------------------------------------------------------------------------
(* C32 *)

\* C32: when the source ends inside a string, scan returns normally with the
\* lexemes it had emitted when it read the opening quote: from the opening
\* quote to the return, the end marker included, nothing is emitted and no
\* error is raised.
C32_UnterminatedString ==
    /\ [][(pc = "scan" /\ mode = "UNKNOWN" /\ mode' = "STRING") => lexemes' = lexemes]_vars
    /\ [][(pc = "scan" /\ mode = "STRING" /\ mode' = "STRING") =>
            lexemes' = lexemes /\ halt' = "running"]_vars
    /\ [][(ScanningChar /\ mode = "STRING" /\ CharAt(p) = NUL) =>
            mode' = "STRING" /\ pc' = "scan"]_vars
    /\ []((pc = "scan" /\ mode = "STRING" /\ p > Len(input)) => ~Failed)
    /\ []((pc = "evaluate" /\ mode = "STRING") =>
            /\ halt = "running"
            /\ input[q] = "\""
            /\ p > Len(input) + 1)

\* scan returned inside a string opened after a lexeme had been emitted
C32_Witness ==
    /\ pc = "evaluate" /\ halt = "running"
    /\ mode = "STRING"
    /\ Len(lexemes) = 1
    /\ q = 2
    /\ Len(input) = 3

---------------------------------------------------------------------------
(* C33 *)

\* the period at position k of src ends a sentence without a word
EmptySentenceAt(src, k) ==
    /\ src[k] = "."
    /\ \E j \in 0..(k - 1) :
          /\ j = 0 \/ src[j] = "."
          /\ \A m \in (j + 1)..(k - 1) : src[m] \in Blanks

HasEmptySentence(src) == \E k \in 1..Len(src) : EmptySentenceAt(src, k)

\* C33: parse accepts a period met in Subject mode with an empty buffer and
\* appends a Sentence with every slot at its default; compile_sentence rejects
\* that sentence with the missing-verb error; so no source with an empty
\* sentence reaches write.
C33_EmptySentence ==
    /\ [][(ParsingToken /\ IsPeriod(tokens[i + 1]) /\ pmode = "PHRASE_EN" /\ buffer = <<>>) =>
            /\ halt' = "running"
            /\ sl' = Append(sl, SENTENCE_DEFAULT)]_vars
    /\ [][(CompilingSentence /\ sl[ci + 1] = SENTENCE_DEFAULT) =>
            /\ halt' = "exit1"
            /\ err' = "Missing verb in sentence."]_vars
    /\ [](asm.written => ~HasEmptySentence(input))

---------------------------------------------------------------------------
(* C34 *)

\* C34: every byte index evaluate writes into the payload of an identifier or
\* string-literal token is below the size it allocated for the payload, the
\* terminating NUL included.
C34_PayloadWithinAllocation ==
    [][(EvaluatingLexeme /\ Len(tokens') = Len(tokens) + 1
            /\ tokens'[Len(tokens')].type \in {"TOKEN_IDENTIFIER", "TOKEN_LITERAL"}) =>
          \A b \in PayloadWrites(lexemes[lex + 1]) : b < tokens'[Len(tokens')].size]_vars

===========================================================================
